---- MODULE Spec2Model ----
(***************************************************************************)
(* Model of src/main.py: the pipeline that looks for pitchers with wins    *)
(* against the Boston, Milwaukee and Atlanta Braves.                       *)
(*                                                                         *)
(*   scan_inactive_players -> find_p_in_right_time_period                  *)
(*     -> the_search_for_all_three -> check_range -> html_display          *)
(*                                                                         *)
(* Text is modelled as a sequence of one-character strings so that split,  *)
(* strip, startswith, endswith and int do what Python does.  The remote    *)
(* site is the environment: every fetch and every parsed element is drawn  *)
(* nondeterministically from small sample sets when the code reads it.     *)
(* An uncaught Python exception ends the run: err holds its name and no    *)
(* action is enabled afterwards.                                           *)
(***************************************************************************)
EXTENDS Integers, Sequences, FiniteSets, TLC

VARIABLES
    pc,            \* the routine the run is in
    err,           \* "" or the name of the uncaught exception that ended the run
    letter,        \* number of directory pages fetched so far (for flet in "a..z")
    resp,          \* status of the latest requests.get response
    fetchFailed,   \* history: some fetch so far came back with a non-success status
    entry,         \* history: the directory entry whose processing raised err
    pl_data,       \* scan_inactive_players' retv / find_p's pl_data: id -> packet
    todo,          \* ids of pl_data.items() not yet visited by find_p's loop
    retpit,        \* find_p_in_right_time_period's retpit
    fetched,       \* history: id -> text of the detail page not_a_pit read
    pdata,         \* the_search_for_all_three's pdata
    checker_list,  \* list(pdata.keys())
    yranges,       \* the three [first, last) year ranges
    answer,        \* check_range's answer: id -> list of team codes
    count,         \* check_range's enumerate index (0, 1, 2)
    yearv,         \* check_range's season
    tablev,        \* what get_team_game_table returned for the season
    row,           \* history: the schedule row whose processing raised err
    lossSeen,      \* history: <<team code, pitcher id>> of the loss rows scanned
    scanned,       \* history: <<season, team code>> of the schedule pages fetched
    output         \* html_display's output: id -> [Pitcher, Opponents]

vars == <<pc, err, letter, resp, fetchFailed, entry, pl_data, todo, retpit,
          fetched, pdata, checker_list, yranges, answer, count, yearv, tablev, row, lossSeen,
          scanned, output>>

\* ------------------------------------------------------------- constants

FIRST_MOVE == 1953
LAST_MOVE == 1966
\* len("abcdefghijklmnopqrstuvwxyz")
NumLetters == 26
\* Bound of the model: no pitcher is credited with more loss rows than this.
MaxWins == 2

tabbrev == <<"BSN", "MLN", "ATL">>

\* -------------------------------------------------------------- text

EmptyMap == [x \in {} |-> x]

MapPut(m, k, v) == [x \in DOMAIN m \cup {k} |-> IF x = k THEN v ELSE m[x]]

Restrict(m, S) == [x \in S |-> m[x]]

Range(s) == {s[i] : i \in DOMAIN s}

Whitespace == {" "}

Digits == {"0", "1", "2", "3", "4", "5", "6", "7", "8", "9"}

DigitVal(c) ==
    CASE c = "0" -> 0 [] c = "1" -> 1 [] c = "2" -> 2 [] c = "3" -> 3
      [] c = "4" -> 4 [] c = "5" -> 5 [] c = "6" -> 6 [] c = "7" -> 7
      [] c = "8" -> 8 [] c = "9" -> 9

RECURSIVE LStrip(_)
LStrip(s) ==
    IF s # <<>> /\ Head(s) \in Whitespace THEN LStrip(Tail(s)) ELSE s

RECURSIVE RStrip(_)
RStrip(s) ==
    IF s # <<>> /\ s[Len(s)] \in Whitespace
    THEN RStrip(SubSeq(s, 1, Len(s) - 1))
    ELSE s

\* str.strip()
Strip(s) == RStrip(LStrip(s))

RECURSIVE SplitAcc(_, _, _, _)
SplitAcc(s, sep, i, cur) ==
    IF i > Len(s) THEN <<cur>>
    ELSE IF s[i] = sep THEN <<cur>> \o SplitAcc(s, sep, i + 1, <<>>)
    ELSE SplitAcc(s, sep, i + 1, Append(cur, s[i]))

\* str.split(sep) for a one-character separator: always at least one part
Split(s, sep) == SplitAcc(s, sep, 1, <<>>)

\* str.startswith / str.endswith
StartsWith(s, pre) ==
    Len(s) >= Len(pre) /\ SubSeq(s, 1, Len(pre)) = pre

EndsWith(s, suf) ==
    Len(s) >= Len(suf) /\ SubSeq(s, Len(s) - Len(suf) + 1, Len(s)) = suf

\* int(s) succeeds on optional surrounding whitespace around decimal digits
\* (no sign or underscore occurs in the sample texts)
IsInt(s) ==
    LET t == Strip(s) IN t # <<>> /\ \A i \in DOMAIN t : t[i] \in Digits

RECURSIVE DigitsVal(_)
DigitsVal(t) ==
    IF t = <<>> THEN 0
    ELSE 10 * DigitsVal(SubSeq(t, 1, Len(t) - 1)) + DigitVal(t[Len(t)])

ToInt(s) == DigitsVal(Strip(s))

\* seq[-1]
Last(s) == s[Len(s)]

\* ------------------------------------------------ parsed markup (bs4)

\* NavigableString
Str(t) ==
    [kind |-> "str", text |-> t, hasHref |-> FALSE, href |-> <<>>,
     contents |-> <<>>]

\* Tag carrying an href attribute
Anchor(h, kids) ==
    [kind |-> "tag", text |-> <<>>, hasHref |-> TRUE, href |-> h,
     contents |-> kids]

\* Tag without an href attribute
Tag(kids) ==
    [kind |-> "tag", text |-> <<>>, hasHref |-> FALSE, href |-> <<>>,
     contents |-> kids]

NotFound == [found |-> FALSE, node |-> Str(<<>>)]

\* element.find(href=True): the first descendant, in document order, that
\* carries an href attribute
RECURSIVE FindHref(_)
FindHref(nodes) ==
    IF nodes = <<>> THEN NotFound
    ELSE LET n == Head(nodes) IN
         IF n.kind = "tag" /\ n.hasHref THEN [found |-> TRUE, node |-> n]
         ELSE LET inner == IF n.kind = "tag" THEN FindHref(n.contents)
                           ELSE NotFound
              IN IF inner.found THEN inner ELSE FindHref(Tail(nodes))

\* ----------------------------------------------------- sample texts

HREF_A == <<"/", "p", "l", "a", "y", "e", "r", "s", "/", "a", "/", "a", "1", ".", "s", "h", "t", "m", "l">>
HREF_B == <<"/", "p", "l", "a", "y", "e", "r", "s", "/", "b", "/", "b", "2", ".", "s", "h", "t", "m", "l">>
HREF_TEAM == <<"/", "t", "e", "a", "m", "s", "/", "B", "S", "N", "/">>
HREF_HTML == <<"/", "p", "l", "a", "y", "e", "r", "s", "/", "a", "/", "a", "1", ".", "h", "t", "m", "l">>
PLAYERS_PREFIX == <<"/", "p", "l", "a", "y", "e", "r", "s", "/">>
SHTML_SUFFIX == <<".", "s", "h", "t", "m", "l">>
Y_5266 == <<" ", "(", "1", "9", "5", "2", "-", "1", "9", "6", "6", ")">>
Y_5366 == <<" ", "(", "1", "9", "5", "3", "-", "1", "9", "6", "6", ")">>
Y_5265 == <<" ", "(", "1", "9", "5", "2", "-", "1", "9", "6", "5", ")">>
Y_5167 == <<" ", "(", "1", "9", "5", "1", "-", "1", "9", "6", "7", ")">>
Y_6652 == <<" ", "(", "1", "9", "6", "6", "-", "1", "9", "5", "2", ")">>
Y_ONEYEAR == <<" ", "(", "1", "9", "5", "2", ")">>
Y_NODASH == <<" ", "1", "9", "5", "2">>
Y_BADINT == <<" ", "(", "1", "9", "x", "2", "-", "1", "9", "6", "6", ")">>
ID_A == <<"a", "1">>
ID_B == <<"b", "2">>
NAME_1 == <<"R", "R">>
TXT == <<"s", "e", "e">>

PlayerHrefs == {HREF_A, HREF_B}

\* years segments of the expected "(start-end)" shape
GoodYears == {Y_5266, Y_5366, Y_5265, Y_5167}

\* directory entries (the contents of a <p>) of the expected shape
WellFormedEntries ==
    {<<Anchor(h, <<Str(NAME_1)>>), Str(y)>> : h \in PlayerHrefs, y \in GoodYears}

\* a player link followed by a "(start-end)" whose start is after its end
ReversedEntries == {<<Anchor(HREF_A, <<Str(NAME_1)>>), Str(Y_6652)>>}

\* a player link followed by a years segment that is not a "(start-end)"
BadYearsEntries ==
    {<<Anchor(HREF_A, <<Str(NAME_1)>>), Str(y)>> :
        y \in {Y_ONEYEAR, Y_NODASH, Y_BADINT}}
    \cup {<<Anchor(HREF_A, <<Str(NAME_1)>>), Tag(<<Str(Y_5266)>>)>>}

\* entries that are not a first-child player link at all
BadLinkEntries ==
    {<<Str(TXT)>>,
     <<Tag(<<Anchor(HREF_A, <<Str(NAME_1)>>), Str(Y_5266)>>)>>,
     <<Str(TXT), Str(TXT)>>,
     <<Tag(<<Str(NAME_1)>>), Str(Y_5266)>>,
     <<Str(TXT), Anchor(HREF_A, <<Str(NAME_1)>>)>>,
     <<Anchor(HREF_TEAM, <<Str(NAME_1)>>), Str(Y_5266)>>,
     <<Anchor(HREF_HTML, <<Str(NAME_1)>>), Str(Y_5266)>>,
     <<Tag(<<Anchor(HREF_A, <<Str(NAME_1)>>)>>), Str(Y_5266)>>,
     <<Anchor(HREF_A, <<>>), Str(Y_5266)>>}

Entries ==
    WellFormedEntries \cup ReversedEntries \cup BadYearsEntries
        \cup BadLinkEntries

\* ------------------------------------------------- scan_inactive_players

Ok(v) == [err |-> "", val |-> v]

Raise(e) == [err |-> e, val |-> EmptyMap]

pack_player(link, name, years) ==
    IF years.kind # "str" THEN Raise("TypeError")
    ELSE LET syears == Split(Strip(years.text), "-")
             first  == Last(Split(syears[1], "("))
         IN IF ~IsInt(first) THEN Raise("ValueError")
            ELSE IF Len(syears) < 2 THEN Raise("IndexError")
            ELSE LET last == Split(syears[2], ")")[1] IN
                 IF ~IsInt(last) THEN Raise("ValueError")
                 ELSE Ok([link |-> link, name |-> name,
                          first |-> ToInt(first), last |-> ToInt(last)])

pl_id(plindex) ==
    LET splt1 == Last(Split(plindex, "/"))
        splt2 == Split(splt1, ".")[1]
    IN splt2

\* the body of "for entry in info", given entry.contents: the new retv, or
\* the exception raised
scan_entry(retv, contents) ==
    IF Len(contents) < 2 THEN Ok(retv)
    ELSE LET plyr_ref == FindHref(contents) IN
         IF ~plyr_ref.found THEN Ok(retv)
         ELSE IF contents[1].kind = "str" THEN Ok(retv)
         ELSE IF ~contents[1].hasHref THEN Raise("KeyError")
         ELSE LET hrefv == contents[1].href IN
              IF ~StartsWith(hrefv, PLAYERS_PREFIX) THEN Ok(retv)
              ELSE IF ~EndsWith(hrefv, SHTML_SUFFIX) THEN Ok(retv)
              ELSE IF plyr_ref.node.contents = <<>> THEN Raise("IndexError")
              ELSE LET ppacket == pack_player(hrefv, plyr_ref.node.contents[1],
                                              contents[2])
                   IN IF ppacket.err # "" THEN Raise(ppacket.err)
                      ELSE Ok(MapPut(retv, pl_id(hrefv), ppacket.val))


\* ------------------------------------------- find_p_in_right_time_period

\* The text of a fetched player page, as the sequence of its section titles.
PITCHING_MARKER == "Standard Pitching"

DetailPages ==
    {<<"Standard Batting">>,
     <<"Standard Batting", "Standard Pitching">>,
     <<"Standard Pitching">>}

\* the body that comes with a non-success status
ErrorPage == <<"Not Found">>

\* str.find(sub): the 0-based position of the first occurrence, or -1
Find(text, sub) ==
    IF \E i \in DOMAIN text : text[i] = sub
    THEN (CHOOSE i \in DOMAIN text :
              text[i] = sub /\ \A j \in 1..(i - 1) : text[j] # sub) - 1
    ELSE -1

\* not_a_pit, given resp.text
not_a_pit(text) == Find(text, PITCHING_MARKER) < 0

\* mutant: the second test written "<=" (a career must end after LAST_MOVE)
in_time_period_strict(indp) ==
    ~(indp.first >= FIRST_MOVE) /\ ~(indp.last <= LAST_MOVE)

\* the two career tests of find_p's loop: TRUE when neither "continue" is taken
in_time_period(indp) ==
    ~(indp.first >= FIRST_MOVE) /\ ~(indp.last < LAST_MOVE)

\* ---------------------------------------------- the_search_for_all_three

RECURSIVE earliest_of(_, _, _)
earliest_of(pd, S, earliest) ==
    IF S = {} THEN earliest
    ELSE LET p == CHOOSE q \in S : TRUE IN
         earliest_of(pd, S \ {p},
                     IF pd[p].first < earliest THEN pd[p].first ELSE earliest)

RECURSIVE latest_of(_, _, _)
latest_of(pd, S, latest) ==
    IF S = {} THEN latest
    ELSE LET p == CHOOSE q \in S : TRUE IN
         latest_of(pd, S \ {p},
                   IF pd[p].last > latest THEN pd[p].last ELSE latest)

\* mutant: the last range ends at latest, leaving its final season out
make_yranges_closed(earliest, latest) ==
    <<<<earliest, FIRST_MOVE>>,
      <<FIRST_MOVE, LAST_MOVE>>,
      <<LAST_MOVE, latest>>>>

make_yranges(earliest, latest) ==
    <<<<earliest, FIRST_MOVE>>,
      <<FIRST_MOVE, LAST_MOVE>>,
      <<LAST_MOVE, latest + 1>>>>

\* ------------------------------------------------------------ check_range

NoLink == [present |-> FALSE, href |-> <<>>]

Link(h) == [present |-> TRUE, href |-> h]

\* a <tr> as the sequence of its <td> cells: the text of each and its first <a>
MkRow(n, result, link) ==
    [i \in 1..n |-> [text |-> IF i = 6 THEN result ELSE <<>>,
                     a |-> IF i = 13 THEN link ELSE NoLink]]

Rows ==
    {MkRow(13, <<"W">>, Link(HREF_A)),
     MkRow(13, <<"L">>, Link(HREF_A)),
     MkRow(13, <<"L", "-", "w", "o">>, Link(HREF_B)),
     MkRow(13, <<"W">>, NoLink),
     MkRow(13, <<"L">>, NoLink),
     MkRow(12, <<"L">>, NoLink),
     MkRow(12, <<"W">>, NoLink),
     MkRow(11, <<"L">>, NoLink),
     MkRow(0, <<>>, NoLink)}

init_answer(clist) == [p \in clist |-> <<>>]

\* mutant: the result cell compared with "L" instead of its first character
is_loss_exact(cell) == cell.text = <<"L">>

\* columns[5].text.startswith("L")
is_loss(cell) == StartsWith(cell.text, <<"L">>)

\* mutant: the win recorded without the membership test (setdefault style)
record_win_any(ans, clist, pname, code) ==
    MapPut(ans, pname,
           Append(IF pname \in DOMAIN ans THEN ans[pname] ELSE <<>>, code))

\* "if pname in checker_list: answer[pname].append(tabbrev[count])"
record_win(ans, clist, pname, code) ==
    IF pname \in clist THEN [ans EXCEPT ![pname] = Append(@, code)] ELSE ans

\* the body of "for row in tablev.tbody.find_all('tr')": columns[k] of the
\* code is columns[k + 1] here
scan_row(ans, clist, columns, cnt) ==
    IF Len(columns) < 12 THEN Ok(ans)
    ELSE IF is_loss(columns[6])
    THEN IF Len(columns) < 13 THEN Raise("IndexError")
         ELSE IF ~columns[13].a.present THEN Raise("TypeError")
         ELSE LET plyrw == Last(Split(columns[13].a.href, "/"))
                  pname == Split(plyrw, ".")[1]
              IN Ok(record_win(ans, clist, pname, tabbrev[cnt + 1]))
    ELSE Ok(ans)

\* range(rngvals[0], rngvals[1]) is not empty
HasSeason(yr, c) == yr[c + 1][1] < yr[c + 1][2]

NoSeason == [more |-> FALSE, count |-> 0, yearv |-> 0]

\* the first season of the first non-empty range from index c on
RECURSIVE FirstSeasonFrom(_, _)
FirstSeasonFrom(yr, c) ==
    IF c >= Len(yr) THEN NoSeason
    ELSE IF HasSeason(yr, c)
    THEN [more |-> TRUE, count |-> c, yearv |-> yr[c + 1][1]]
    ELSE FirstSeasonFrom(yr, c + 1)

\* the season the two nested loops visit after season y of range c
NextSeason(yr, c, y) ==
    IF y + 1 < yr[c + 1][2]
    THEN [more |-> TRUE, count |-> c, yearv |-> y + 1]
    ELSE FirstSeasonFrom(yr, c + 1)

\* ----------------------------------------------------------- html_display

full_name(abbrev) ==
    CASE abbrev = "BSN" -> "Boston"
      [] abbrev = "MLN" -> "Milwaukee"
      [] abbrev = "ATL" -> "Atlanta"

\* the orders in which a set can be listed
Orderings(S) == {s \in [1..Cardinality(S) -> S] : Range(s) = S}

\* mutant: list(pit[1]), the set() left out
abbrev_lists_nodedup(wins) == {wins}

\* list(set(pit[1])): the iteration order of a set of strings is not fixed
abbrev_lists(wins) == Orderings(Range(wins))

\* ', '.join(city_list), as the sequence of its pieces
RECURSIVE Join(_)
Join(parts) ==
    IF parts = <<>> THEN <<>>
    ELSE IF Len(parts) = 1 THEN parts
    ELSE <<Head(parts), ", ">> \o Join(Tail(parts))

\* olist for one abbrev_list
opponents(abbrev_list) ==
    LET city_list == [i \in DOMAIN abbrev_list |-> full_name(abbrev_list[i])]
        olist == Join(city_list)
    IN IF olist = <<>> THEN <<"None">> ELSE olist

\* the rows html_display can write for one pitcher
display_rows(ans, pd, pit) ==
    {[Pitcher |-> pd[pit].name, Opponents |-> opponents(l)] :
        l \in abbrev_lists(ans[pit])}

\* ---------------------------------------------------------------- history

\* the team the Braves were in season y
EraOf(y) ==
    IF y < FIRST_MOVE THEN "BSN" ELSE IF y < LAST_MOVE THEN "MLN" ELSE "ATL"

HrefOf(id) == IF id = ID_A THEN HREF_A ELSE HREF_B

\* a row with a result cell and a credited-pitcher cell holding a link, whose
\* result begins with the loss marker
IsLossRow(r) ==
    /\ Len(r) >= 13
    /\ r[6].text # <<>>
    /\ Head(r[6].text) = "L"
    /\ r[13].a.present

\* the pitcher a loss row credits with the win
Winner(r) == CHOOSE id \in {ID_A, ID_B} : r[13].a.href = HrefOf(id)

Observed(r, y) == IF IsLossRow(r) THEN {<<EraOf(y), Winner(r)>>} ELSE {}

\* ------------------------------------------------------------------- run

Init ==
    /\ pc = "scan_inactive_players"
    /\ err = ""
    /\ letter = 0
    /\ resp = "unset"
    /\ fetchFailed = FALSE
    /\ entry = <<>>
    /\ pl_data = EmptyMap
    /\ todo = {}
    /\ retpit = EmptyMap
    /\ fetched = EmptyMap
    /\ pdata = EmptyMap
    /\ checker_list = {}
    /\ yranges = <<>>
    /\ answer = EmptyMap
    /\ count = 0
    /\ yearv = 0
    /\ tablev = "unset"
    /\ row = <<>>
    /\ lossSeen = {}
    /\ scanned = <<>>
    /\ output = EmptyMap

\* requests.get either raises or returns a response of some status
Statuses == {"success", "non_success"}

\* lines 101-105: fetch and parse the page of the next letter
FetchPage ==
    /\ pc = "scan_inactive_players" /\ err = ""
    /\ letter < NumLetters
    /\ letter' = letter + 1
    /\ \/ /\ err' = "ConnectionError"
          /\ UNCHANGED <<resp, fetchFailed>>
       \/ /\ \E st \in Statuses :
                /\ resp' = st
                /\ fetchFailed' = (fetchFailed \/ st = "non_success")
          /\ err' = err
    /\ UNCHANGED <<pc, entry, pl_data, todo, retpit, fetched, pdata,
                   checker_list, yranges, answer, count, yearv, tablev, row,
                   lossSeen, scanned, output>>

\* lines 106-122: one <p> of the page just fetched (an error page has none
\* that matter)
ScanEntry ==
    /\ pc = "scan_inactive_players" /\ err = ""
    /\ letter >= 1 /\ resp = "success"
    /\ \E e \in Entries :
          LET r == scan_entry(pl_data, e) IN
          /\ entry' = IF r.err = "" THEN entry ELSE e
          /\ err' = r.err
          /\ pl_data' = IF r.err = "" THEN r.val ELSE pl_data
    /\ UNCHANGED <<pc, letter, resp, fetchFailed, todo, retpit, fetched,
                   pdata, checker_list, yranges, answer, count, yearv, tablev,
                   row, lossSeen, scanned, output>>

\* line 123 and lines 147-148
ScanReturn ==
    /\ pc = "scan_inactive_players" /\ err = ""
    /\ letter = NumLetters
    /\ pc' = "find_p_in_right_time_period"
    /\ todo' = DOMAIN pl_data
    /\ retpit' = EmptyMap
    /\ UNCHANGED <<err, letter, resp, fetchFailed, entry, pl_data, fetched,
                   pdata, checker_list, yranges, answer, count, yearv, tablev,
                   row, lossSeen, scanned, output>>

\* lines 149-157: one item of pl_data.items(), with not_a_pit's fetch
FilterEntry ==
    /\ pc = "find_p_in_right_time_period" /\ err = ""
    /\ \E id \in todo :
          /\ todo' = todo \ {id}
          /\ IF ~in_time_period(pl_data[id])
             THEN UNCHANGED <<err, resp, fetchFailed, fetched, retpit>>
             ELSE \/ /\ err' = "ConnectionError"
                     /\ UNCHANGED <<resp, fetchFailed, fetched, retpit>>
                  \/ \E st \in Statuses :
                     \E text \in IF st = "success" THEN DetailPages
                                 ELSE {ErrorPage} :
                        /\ resp' = st
                        /\ fetchFailed' = (fetchFailed \/ st = "non_success")
                        /\ fetched' = MapPut(fetched, id, text)
                        /\ retpit' = IF not_a_pit(text) THEN retpit
                                     ELSE MapPut(retpit, id, pl_data[id])
                        /\ err' = err
    /\ UNCHANGED <<pc, letter, entry, pl_data, pdata, checker_list, yranges,
                   answer, count, yearv, tablev, row, lossSeen, scanned,
                   output>>

\* line 158 and line 247: find_p returns and its locals go out of scope
FilterReturn ==
    /\ pc = "find_p_in_right_time_period" /\ err = ""
    /\ todo = {}
    /\ pdata' = retpit
    /\ pl_data' = EmptyMap
    /\ retpit' = EmptyMap
    /\ fetched' = EmptyMap
    /\ pc' = "the_search_for_all_three"
    /\ UNCHANGED <<err, letter, resp, fetchFailed, entry, todo, checker_list,
                   yranges, answer, count, yearv, tablev, row, lossSeen,
                   scanned, output>>

\* lines 248-258
TheSearch ==
    /\ pc = "the_search_for_all_three" /\ err = ""
    /\ checker_list' = DOMAIN pdata
    /\ yranges' = make_yranges(
                      earliest_of(pdata, DOMAIN pdata, FIRST_MOVE - 1),
                      latest_of(pdata, DOMAIN pdata, LAST_MOVE))
    /\ pc' = "check_range"
    /\ UNCHANGED <<err, letter, resp, fetchFailed, entry, pl_data, todo,
                   retpit, fetched, pdata, answer, count, yearv, tablev, row,
                   lossSeen, scanned, output>>

\* the loops of check_range move to season s, or end and html_display starts
GoTo(s) ==
    IF s.more
    THEN /\ pc' = "get_team_game_table"
         /\ count' = s.count
         /\ yearv' = s.yearv
    ELSE /\ pc' = "html_display"
         /\ UNCHANGED <<count, yearv>>

\* lines 188-193
CheckRangeInit ==
    /\ pc = "check_range" /\ err = ""
    /\ answer' = init_answer(checker_list)
    /\ GoTo(FirstSeasonFrom(yranges, 0))
    /\ UNCHANGED <<err, letter, resp, fetchFailed, entry, pl_data, todo,
                   retpit, fetched, pdata, checker_list, yranges, tablev, row,
                   lossSeen, scanned, output>>

\* what soup.find('table', id="team_schedule") can return for a page that
\* came back with a success status
Tables == {"None", "table_without_tbody", "table"}

\* line 194 (get_team_game_table, lines 166-171) and the evaluation of
\* tablev.tbody.find_all('tr') at line 195
GetTable ==
    /\ pc = "get_team_game_table" /\ err = ""
    /\ scanned' = Append(scanned, <<yearv, tabbrev[count + 1]>>)
    /\ \/ /\ err' = "ConnectionError"
          /\ UNCHANGED <<resp, fetchFailed, tablev, pc>>
       \/ \E st \in Statuses :
          \E t \in IF st = "success" THEN Tables ELSE {"None"} :
             /\ resp' = st
             /\ fetchFailed' = (fetchFailed \/ st = "non_success")
             /\ tablev' = t
             /\ IF t = "table"
                THEN pc' = "rows" /\ err' = err
                ELSE pc' = pc /\ err' = "AttributeError"
    /\ UNCHANGED <<letter, entry, pl_data, todo, retpit, fetched, pdata,
                   checker_list, yranges, answer, count, yearv, row, lossSeen,
                   output>>

\* lines 195-203: one <tr> of the table
ScanRow ==
    /\ pc = "rows" /\ err = ""
    /\ \E r \in Rows :
          LET res == scan_row(answer, checker_list, r, count) IN
          /\ res.err = "" =>
                \A p \in DOMAIN res.val : Len(res.val[p]) <= MaxWins
          /\ row' = IF res.err = "" THEN row ELSE r
          /\ err' = res.err
          /\ answer' = IF res.err = "" THEN res.val ELSE answer
          /\ lossSeen' = lossSeen \cup Observed(r, yearv)
    /\ UNCHANGED <<pc, letter, resp, fetchFailed, entry, pl_data, todo,
                   retpit, fetched, pdata, checker_list, yranges, count,
                   yearv, tablev, scanned, output>>

\* the table has no more rows: on to the next season, or line 204 and line 260
EndRows ==
    /\ pc = "rows" /\ err = ""
    /\ GoTo(NextSeason(yranges, count, yearv))
    /\ UNCHANGED <<err, letter, resp, fetchFailed, entry, pl_data, todo,
                   retpit, fetched, pdata, checker_list, yranges, answer,
                   tablev, row, lossSeen, scanned, output>>

\* lines 219-236
HtmlDisplay ==
    /\ pc = "html_display" /\ err = ""
    /\ \E out \in [DOMAIN answer ->
                      UNION {display_rows(answer, pdata, p) :
                                p \in DOMAIN answer}] :
          /\ \A p \in DOMAIN answer :
                out[p] \in display_rows(answer, pdata, p)
          /\ output' = out
    /\ pc' = "done"
    /\ UNCHANGED <<err, letter, resp, fetchFailed, entry, pl_data, todo,
                   retpit, fetched, pdata, checker_list, yranges, answer,
                   count, yearv, tablev, row, lossSeen, scanned>>

Next ==
    \/ FetchPage
    \/ ScanEntry
    \/ ScanReturn
    \/ FilterEntry
    \/ FilterReturn
    \/ TheSearch
    \/ CheckRangeInit
    \/ GetTable
    \/ ScanRow
    \/ EndRows
    \/ HtmlDisplay

Spec == Init /\ [][Next]_vars

\* ------------------------------------------------------------ properties

Candidates == DOMAIN pdata

Codes == Range(tabbrev)

\* check_range has initialized answer (the scan is under way or over)
InScan == pc \in {"get_team_game_table", "rows", "html_display", "done"}

ScanOver == pc \in {"html_display", "done"}

OtherIds == {ID_A, ID_B} \ Candidates

\* C1: throughout the scan and when it completes, a team code is credited to
\* a candidate exactly when some scanned row of a season of that team is a
\* loss row whose credited winning pitcher is that candidate; rows that are
\* not losses and losses to pitchers outside the candidate set credit nobody.
C1_WinAttribution ==
    InScan =>
        \A p \in Candidates : \A e \in Codes :
            (p \in DOMAIN answer /\ e \in Range(answer[p]))
                <=> (<<e, p>> \in lossSeen)

\* a completed scan that credited a candidate and also met a loss to a
\* pitcher outside the candidate set
C1_Witness ==
    /\ ScanOver
    /\ \E p \in Candidates : answer[p] # <<>>
    /\ \E q \in OtherIds : \E e \in Codes : <<e, q>> \in lossSeen

CityOf(e) ==
    IF e = "BSN" THEN "Boston" ELSE IF e = "MLN" THEN "Milwaukee" ELSE "Atlanta"

Occurrences(s, x) == Cardinality({i \in DOMAIN s : s[i] = x})

C3_LedgerKeys ==
    InScan =>
        /\ DOMAIN answer = Candidates
        /\ pc = "done" =>
              /\ DOMAIN output = Candidates
              /\ \A p \in Candidates :
                    answer[p] = <<>> <=> output[p].Opponents = <<"None">>

\* a report with a candidate without wins, after a loss to a pitcher outside
\* the candidate set was scanned
C3_Witness ==
    /\ pc = "done"
    /\ \E p \in Candidates : answer[p] = <<>>
    /\ \E q \in OtherIds : \E e \in Codes : <<e, q>> \in lossSeen

\* the entries among the ids in S whose career lies in the window
InWindow(S) ==
    {id \in S :
        pl_data[id].first < FIRST_MOVE /\ pl_data[id].last >= LAST_MOVE}

\* the entries of the directory mapping the eligibility filter must keep,
\* among the ids in S
Eligible(S) ==
    {id \in InWindow(S) :
        id \in DOMAIN fetched /\ PITCHING_MARKER \in Range(fetched[id])}

\* C4: what find_p_in_right_time_period has kept of the entries visited so
\* far, and so what it returns, is exactly the entries that started before
\* FIRST_MOVE, ended in LAST_MOVE or later and whose page holds the marker;
\* the page of every visited entry in the window has been read.
C4_EligibilityExact ==
    (pc = "find_p_in_right_time_period" /\ err = "") =>
        /\ InWindow(DOMAIN pl_data \ todo) \subseteq DOMAIN fetched
        /\ retpit = Restrict(pl_data, Eligible(DOMAIN pl_data \ todo))

\* find_p about to return with a (FIRST_MOVE - 1, LAST_MOVE) pitcher kept and
\* a player who started in FIRST_MOVE dropped
C4_Witness ==
    /\ pc = "find_p_in_right_time_period" /\ err = "" /\ todo = {}
    /\ \E id \in DOMAIN retpit :
          /\ retpit[id].first = FIRST_MOVE - 1
          /\ retpit[id].last = LAST_MOVE
    /\ \E id \in DOMAIN pl_data \ DOMAIN retpit :
          pl_data[id].first = FIRST_MOVE

\* the seasons of a half-open range
Seasons(r) == {y \in r[1]..(r[2] - 1) : TRUE}

AllSeasons == Seasons(yranges[1]) \cup Seasons(yranges[2]) \cup Seasons(yranges[3])

\* C5: the three ranges are contiguous and disjoint, meet at FIRST_MOVE and
\* LAST_MOVE, cover every candidate's career and the window FIRST_MOVE - 1 ..
\* LAST_MOVE and nothing before the earliest or after the latest of these;
\* a completed scan fetched every season once, under that season's team.
C5_EraRanges ==
    InScan =>
        /\ yranges[1][2] = FIRST_MOVE /\ yranges[2][1] = FIRST_MOVE
        /\ yranges[2][2] = LAST_MOVE /\ yranges[3][1] = LAST_MOVE
        /\ \A i, j \in 1..3 :
              i # j => Seasons(yranges[i]) \cap Seasons(yranges[j]) = {}
        /\ \A p \in Candidates :
              pdata[p].first..pdata[p].last \subseteq AllSeasons
        /\ (FIRST_MOVE - 1)..LAST_MOVE \subseteq AllSeasons
        /\ \A y \in AllSeasons :
              \/ y \in (FIRST_MOVE - 1)..LAST_MOVE
              \/ \E p \in Candidates : y \in pdata[p].first..pdata[p].last
        /\ \A i \in DOMAIN scanned :
              /\ scanned[i] = <<scanned[i][1], EraOf(scanned[i][1])>>
              /\ scanned[i][1] \in AllSeasons
              /\ \A j \in DOMAIN scanned : scanned[j][1] = scanned[i][1] => j = i
        /\ ScanOver => {scanned[i][1] : i \in DOMAIN scanned} = AllSeasons

\* a completed scan for a candidate whose career reaches beyond the window
\* on both sides
C5_Witness ==
    /\ ScanOver
    /\ \E p \in Candidates :
          pdata[p].first < FIRST_MOVE - 1 /\ pdata[p].last > LAST_MOVE
    /\ Len(scanned) = Cardinality(AllSeasons)

\* C6 as stated: once a fetch has come back with a non-success status, no
\* report is rendered.
C6_FetchFailureFatal == fetchFailed => pc # "done"

\* C7 as stated: a schedule page fetched with success that holds no results
\* table (or one without a body) does not end the run.
C7_MissingTableNonFatal ==
    (pc = "get_team_game_table" /\ resp = "success" /\ tablev # "table") =>
        err = ""

\* C8 as stated: no run ends on a schedule row that has fewer than 13 cells
\* or whose credited-pitcher cell holds no link; such rows are skipped.
C8_MisshapenRowSkipped ==
    row # <<>> => ~(Len(row) < 13 \/ ~row[13].a.present)

\* C9 as stated: no run ends on a directory entry that is not a first-child
\* player link followed by a "(start-end)" segment; such entries are skipped.
C9_IllFormedEntrySkipped ==
    entry \notin BadYearsEntries \cup BadLinkEntries

\* C10 as stated: every record of the directory mapping has first <= last.
C10_CareerYearsOrdered ==
    \A id \in DOMAIN pl_data : pl_data[id].first <= pl_data[id].last

====
